---- MODULE Spec2Model ----
(***************************************************************************)
(* oxrq (src/src/main.rs): load RDF sources into a store, run one SPARQL   *)
(* query or update, serialize the result.  Strings that the code takes     *)
(* apart (paths, IRIs) are sequences of tokens; the RDF parser, the SPARQL *)
(* parser and the store are the oxigraph library, modelled by the part of  *)
(* their contract that main.rs uses.                                       *)
(***************************************************************************)
EXTENDS Integers, Sequences, FiniteSets, TLC

VARIABLES pc, args, store, query_str, base_iri, prefixes,
          idx, use_stdin, query_file, query_parse_err,
          stdout, stderr, err,
          handed, loaded, stdin_read, executed, produced

vars == <<pc, args, store, query_str, base_iri, prefixes,
          idx, use_stdin, query_file, query_parse_err,
          stdout, stderr, err,
          handed, loaded, stdin_read, executed, produced>>

\* Longest list of file arguments given on the command line.
MaxFiles == 2

\* Option: None is the empty sequence, Some(v) the one-element sequence.
None == <<>>
Some(v) == <<v>>
Unwrap(opt) == opt[1]

\* GraphName::DefaultGraph
DefaultGraph == <<"DefaultGraph">>

\* HashMap::new()
EmptyMap == [l \in {} |-> ""]

Max(S) == CHOOSE m \in S : \A n \in S : n <= m

-----------------------------------------------------------------------------
(* The file arguments of the runs that are explored. *)

\* Standard input as a source, in the record of what was loaded.
Stdin == <<"<stdin>">>

Dash == <<"-">>
PathQ == <<"q", ".", "rq">>
PathR == <<"/", "r", ".", "rq">>
PathA == <<"a", ".", "ttl">>
PathB == <<"/", "b", " ", "c", ".", "ttl">>
PathC == <<"c", ".", "nt">>
PathNoExt == <<"data">>
PathZ == <<"x", ".", "zzz">>
PathBad == <<"d", "<", ".", "ttl">>

Paths == {Dash, PathQ, PathR, PathA, PathB, PathC, PathNoExt, PathZ, PathBad}

\* Paths tried as the query argument under --file-query.
QueryPaths == {PathQ, PathA, Dash}

\* Values tried for --base-iri: absent, an absolute IRI, a relative reference.
OptBase == <<"http://opt/">>
RelBase == <<"rel">>
BaseOptions == {None, Some(OptBase), Some(RelBase)}

\* What the SPARQL parsers make of a body: accepted by Query::parse as the
\* given form, and/or accepted by Update::parse.
BodyWords == {"select", "ask", "construct", "update", "both", "garbage"}
Bodies == {<<w>> : w \in BodyWords}

\* format!("PREFIX {pfx}: <{ns}>\n")
PrefixLine(pfx, ns) == <<"PREFIX ", pfx, ": <", ns, ">\n">>

\* Contents of the .rq files.
RqContent(p) ==
    IF p = PathQ THEN PrefixLine("ex", "nsQ") \o <<"construct">>
    ELSE <<"update">>

\* Contents of the data files: triples, declared prefixes, declared @base.
FileContent(p) ==
    CASE p = PathA -> [triples |-> {"t1"}, prefixes |-> [l \in {"ex"} |-> "nsA"],
                       base |-> None]
      [] p = PathB -> [triples |-> {"t2"},
                       prefixes |-> [l \in {"ex", "p"} |-> IF l = "ex" THEN "nsB" ELSE "nsP"],
                       base |-> Some(<<"http://b/">>)]
      [] OTHER -> [triples |-> {"t1"}, prefixes |-> EmptyMap, base |-> None]

\* Contents that standard input may carry.
StdinContents ==
    { [triples |-> {"t2"}, prefixes |-> [l \in {"ex"} |-> "nsS"], base |-> None],
      [triples |-> {"t1"}, prefixes |-> EmptyMap, base |-> Some(<<"http://s/">>)] }

\* Values tried for --input-format and --output-format.
InputFormats == {None, Some("nt"), Some("zzz")}
OutputFormats == {None, Some("nt"), Some("tsv")}

\* Triples a CONSTRUCT may produce, graphs an update may name.
Triples == {"t1", "t3"}
UpdateGraph == <<"urn:", "g">>

-----------------------------------------------------------------------------
(* Path and IRI helpers. *)

LastIndexOf(s, c) ==
    LET I == {i \in 1..Len(s) : s[i] = c}
    IN IF I = {} THEN 0 ELSE Max(I)

\* Path::file_name
FileName(p) == SubSeq(p, LastIndexOf(p, "/") + 1, Len(p))

\* Path::extension().and_then(OsStr::to_str): the part of the file name after
\* its last dot; None without a dot, when the only dot is the first character,
\* and for "..".
Extension(p) ==
    LET f == FileName(p)
        d == LastIndexOf(f, ".")
    IN IF d <= 1 \/ f = <<".", ".">> THEN None
       ELSE IF d = Len(f) THEN Some("") ELSE Some(f[Len(f)])

\* RdfFormat::from_extension
RdfFormatFromExtension(ext) ==
    CASE ext = "nt" -> Some("NTriples")
      [] ext = "nq" -> Some("NQuads")
      [] ext = "ttl" -> Some("Turtle")
      [] ext = "trig" -> Some("TriG")
      [] ext = "n3" -> Some("N3")
      [] ext \in {"rdf", "xml"} -> Some("RdfXml")
      [] OTHER -> None

\* RdfFormat::supports_datasets
SupportsDatasets(format) == format \in {"NQuads", "TriG"}

\* QueryResultsFormat::from_extension
ResultsFormatFromExtension(ext) ==
    CASE ext = "tsv" -> Some("Tsv")
      [] ext = "csv" -> Some("Csv")
      [] ext \in {"json", "srj"} -> Some("Json")
      [] ext \in {"xml", "srx"} -> Some("Xml")
      [] OTHER -> None

\* str::replace(" ", "%20")
ReplaceSpaces(s) == [i \in 1..Len(s) |-> IF s[i] = " " THEN "%20" ELSE s[i]]

\* The named graph IRI of a file.
GraphIri(fpath) ==
    ReplaceSpaces(IF fpath[1] = "/" THEN <<"file://">> \o fpath
                  ELSE <<"file:">> \o fpath)

\* NamedNode::new / RdfParser::with_base_iri accept absolute IRIs only.
IriValid(iri) ==
    /\ Len(iri) > 0
    /\ iri[1] \in {"file:", "file://", "http://opt/", "http://b/", "http://s/", "urn:"}
    /\ \A i \in 1..Len(iri) : iri[i] \notin {" ", "<", ">", "^", "{", "}"}

\* Option::get_or_insert
GetOrInsertOverwrite(opt, value) == Some(value)

GetOrInsert(opt, value) == IF opt = None THEN Some(value) ELSE opt

\* Option::unwrap_or
UnwrapOr(opt, dflt) == IF opt = None THEN dflt ELSE Unwrap(opt)

-----------------------------------------------------------------------------
(* The library's parser and store, as load_data uses them. *)

\* Formats whose reader exposes base_iri() and prefixes().
ReportingFormats == {"Turtle", "TriG", "N3"}

\* What the reader yields once the whole stream has parsed: the quads (triples
\* without a graph go to the parser's default graph) and, for the formats that
\* carry them, the base IRI and the prefixes at the end of the document.
ParserReport(format, content, handedBase, defaultGraph) ==
    [quads |-> {<<t, defaultGraph>> : t \in content.triples},
     base |-> IF format \in ReportingFormats
              THEN (IF content.base # None THEN content.base ELSE handedBase)
              ELSE None,
     prefixes |-> IF format \in ReportingFormats
                  THEN content.prefixes ELSE EmptyMap]

\* Store::new()
NewStore == [quads |-> {}, graphs |-> {}]

\* BulkLoader::load_quads: the quads and the named graphs they mention.
LoadQuads(st, quads) ==
    [quads |-> st.quads \cup quads,
     graphs |-> st.graphs \cup {q[2] : q \in {r \in quads : r[2] # DefaultGraph}}]

\* The prefix loop of load_data: a label already in the table is left alone.
MergePrefixesLastWins(old, new) ==
    [l \in DOMAIN old \cup DOMAIN new |-> IF l \in DOMAIN new THEN new[l] ELSE old[l]]

MergePrefixes(old, new) ==
    [l \in DOMAIN old \cup DOMAIN new |-> IF l \in DOMAIN old THEN old[l] ELSE new[l]]

\* The state load_data works on.
State(st, base, pfx) == [store |-> st, base_iri |-> base, prefixes |-> pfx]

\* load_data returning Ok: quads loaded, then base IRI and prefixes merged.
LoadDataOk(s, rep) ==
    [store |-> LoadQuads(s.store, rep.quads),
     base_iri |-> IF rep.base # None THEN GetOrInsert(s.base_iri, Unwrap(rep.base))
                  ELSE s.base_iri,
     prefixes |-> MergePrefixes(s.prefixes, rep.prefixes)]

\* load_data returning Err: the '?' on the collected quads or on load_quads
\* returns before anything is merged; a failed load_quads loads nothing.
LoadDataErrPartial(s, rep) ==
    [s EXCEPT !.store = LoadQuads(s.store, rep.quads)]

LoadDataErr(s, rep) == s

\* use_stdin as first computed in collect_input.
UseStdinInitEither(no_stdin, nfiles) == ~no_stdin \/ nfiles = 0

UseStdinInit(no_stdin, nfiles) == ~no_stdin /\ nfiles = 0

\* Line 85: the query file after another .rq argument.
QueryFileKeepFirst(current, path) == IF current = None THEN Some(path) ELSE current

QueryFileAfter(current, path) == Some(path)

\* The base IRI given to a file's parser.
FileParserBase(acc_base, graph_iri) == UnwrapOr(acc_base, graph_iri)

-----------------------------------------------------------------------------
(* main, up to the call of collect_input. *)

FileLists == UNION {[1..n -> Paths] : n \in 0..MaxFiles}

Init ==
    /\ pc = "start"
    /\ \E b \in BaseOptions, fq \in BOOLEAN, ns \in BOOLEAN, f \in FileLists :
         \E q \in {None} \cup {Some(x) : x \in IF fq THEN QueryPaths ELSE Bodies} :
            args = [base_iri |-> b, file_query |-> fq, no_stdin |-> ns,
                    query |-> q, file |-> f]
    /\ store = NewStore
    /\ query_str = <<>>
    /\ prefixes = EmptyMap
    /\ base_iri = None
    /\ idx = 0
    /\ use_stdin = FALSE
    /\ query_file = None
    /\ query_parse_err = None
    /\ stdout = <<>>
    /\ stderr = <<>>
    /\ err = "none"
    /\ handed = <<>>
    /\ loaded = <<>>
    /\ stdin_read = FALSE
    /\ executed = "none"
    /\ produced = None

\* A '?' or bail! that ends the run.
Fatal(e) == pc' = "error" /\ err' = e

-----------------------------------------------------------------------------
(* collect_input *)

\* Lines 53-69: explicit base IRI, --file-query, first value of use_stdin.
CollectStart ==
    /\ pc = "start"
    /\ base_iri' = IF args.base_iri # None
                   THEN GetOrInsert(base_iri, Unwrap(args.base_iri)) ELSE base_iri
    /\ args' = IF args.file_query /\ args.query # None
               THEN [args EXCEPT !.file = Append(@, Unwrap(args.query)),
                                 !.query = None]
               ELSE args
    /\ use_stdin' = UseStdinInit(args.no_stdin, Len(args'.file))
    /\ query_file' = None
    /\ idx' = 1
    /\ pc' = "files"
    /\ UNCHANGED <<store, query_str, prefixes, query_parse_err, stdout, stderr,
                   err, handed, loaded, stdin_read, executed, produced>>

InLoop == pc = "files" /\ idx <= Len(args.file)
fpath == args.file[idx]

LoopFrame == UNCHANGED <<args, query_str, query_parse_err, stdout, stdin_read,
                         executed, produced>>

\* Lines 73-76.
FileDash ==
    /\ InLoop /\ fpath = Dash
    /\ use_stdin' = TRUE
    /\ idx' = idx + 1
    /\ LoopFrame
    /\ UNCHANGED <<pc, store, base_iri, prefixes, query_file, stderr, err,
                   handed, loaded>>

\* Lines 78-82.
FileNoExtension ==
    /\ InLoop /\ fpath # Dash
    /\ Extension(fpath) = None
    /\ Fatal("NeedsFileExtension")
    /\ LoopFrame
    /\ UNCHANGED <<store, base_iri, prefixes, idx, use_stdin, query_file,
                   stderr, handed, loaded>>

\* Lines 84-87.
FileRq ==
    /\ InLoop /\ fpath # Dash
    /\ Extension(fpath) = Some("rq")
    /\ query_file' = QueryFileAfter(query_file, fpath)
    /\ idx' = idx + 1
    /\ LoopFrame
    /\ UNCHANGED <<pc, store, base_iri, prefixes, use_stdin, stderr, err,
                   handed, loaded>>

IsDataFile(p) == p # Dash /\ Extension(p) \notin {None, Some("rq")}

\* RdfFormat::from_extension(ext) of a file with an extension.
FileFormat(p) == RdfFormatFromExtension(Unwrap(Extension(p)))

\* Lines 89-90.
FileNoFormat ==
    /\ InLoop /\ IsDataFile(fpath)
    /\ FileFormat(fpath) = None
    /\ Fatal("NoRdfFormat")
    /\ LoopFrame
    /\ UNCHANGED <<store, base_iri, prefixes, idx, use_stdin, query_file,
                   stderr, handed, loaded>>

HasFormat(p) == IsDataFile(p) /\ FileFormat(p) # None

\* Line 92: the file cannot be opened.
FileOpenFail ==
    /\ InLoop /\ HasFormat(fpath)
    /\ Fatal("UnableToOpenFile")
    /\ LoopFrame
    /\ UNCHANGED <<store, base_iri, prefixes, idx, use_stdin, query_file,
                   stderr, handed, loaded>>

\* Line 104: the file's graph IRI is not an IRI.
FileInvalidIri ==
    /\ InLoop /\ HasFormat(fpath)
    /\ ~IriValid(GraphIri(fpath))
    /\ Fatal("InvalidIri")
    /\ LoopFrame
    /\ UNCHANGED <<store, base_iri, prefixes, idx, use_stdin, query_file,
                   stderr, handed, loaded>>

\* Line 105: the base IRI for the parser is not an absolute IRI.
FileInvalidBase ==
    /\ InLoop /\ HasFormat(fpath)
    /\ IriValid(GraphIri(fpath))
    /\ ~IriValid(FileParserBase(base_iri, GraphIri(fpath)))
    /\ Fatal("InvalidBaseIri")
    /\ LoopFrame
    /\ UNCHANGED <<store, base_iri, prefixes, idx, use_stdin, query_file,
                   stderr, handed, loaded>>

ParserReady(p) ==
    /\ HasFormat(p)
    /\ IriValid(GraphIri(p))
    /\ IriValid(FileParserBase(base_iri, GraphIri(p)))

FileReport(p) ==
    ParserReport(Unwrap(FileFormat(p)), FileContent(p),
                 Some(FileParserBase(base_iri, GraphIri(p))), GraphIri(p))

\* Lines 107-110, load_data returns Err (a read or parse error in the stream,
\* or a failed bulk load): reported on stderr, the file is skipped.
FileLoadErr ==
    /\ InLoop /\ ParserReady(fpath)
    /\ stderr' = Append(stderr, fpath)
    /\ LET s == LoadDataErr(State(store, base_iri, prefixes), FileReport(fpath))
       IN /\ store' = s.store
          /\ base_iri' = s.base_iri
          /\ prefixes' = s.prefixes
    /\ handed' = Append(handed, [src |-> fpath,
                                 base |-> Some(FileParserBase(base_iri, GraphIri(fpath)))])
    /\ idx' = idx + 1
    /\ LoopFrame
    /\ UNCHANGED <<pc, use_stdin, query_file, err, loaded>>

\* Line 107, load_data returns Ok.
FileLoadOk ==
    /\ InLoop /\ ParserReady(fpath)
    /\ LET s == LoadDataOk(State(store, base_iri, prefixes), FileReport(fpath))
       IN /\ store' = s.store
          /\ base_iri' = s.base_iri
          /\ prefixes' = s.prefixes
    /\ handed' = Append(handed, [src |-> fpath,
                                 base |-> Some(FileParserBase(base_iri, GraphIri(fpath)))])
    /\ loaded' = Append(loaded, [src |-> fpath, report |-> FileReport(fpath)])
    /\ idx' = idx + 1
    /\ LoopFrame
    /\ UNCHANGED <<pc, use_stdin, query_file, stderr, err>>

\* Line 111: the loop is over.
FilesDone ==
    /\ pc = "files" /\ idx > Len(args.file)
    /\ pc' = "stdin"
    /\ UNCHANGED <<args, store, query_str, base_iri, prefixes, idx, use_stdin,
                   query_file, query_parse_err, stdout, stderr, err, handed,
                   loaded, stdin_read, executed, produced>>

\* Lines 113-120: --input-format does not name an RDF format.
StdinFormat(fmt) ==
    IF fmt # None THEN RdfFormatFromExtension(Unwrap(fmt)) ELSE Some("Turtle")

StdinSkip ==
    /\ pc = "stdin" /\ ~use_stdin
    /\ pc' = "query"
    /\ UNCHANGED <<args, store, query_str, base_iri, prefixes, idx, use_stdin,
                   query_file, query_parse_err, stdout, stderr, err, handed,
                   loaded, stdin_read, executed, produced>>

StdinFrame == UNCHANGED <<args, query_str, idx, use_stdin, query_file,
                          query_parse_err, stdout, stderr, executed, produced>>

StdinUnknownFormat ==
    /\ pc = "stdin" /\ use_stdin
    /\ \E fmt \in InputFormats : StdinFormat(fmt) = None
    /\ Fatal("UnknownInputFormat")
    /\ StdinFrame
    /\ UNCHANGED <<store, base_iri, prefixes, handed, loaded, stdin_read>>

\* Lines 125-127.
StdinInvalidBase ==
    /\ pc = "stdin" /\ use_stdin
    /\ base_iri # None /\ ~IriValid(Unwrap(base_iri))
    /\ Fatal("InvalidBaseIri")
    /\ StdinFrame
    /\ UNCHANGED <<store, base_iri, prefixes, handed, loaded, stdin_read>>

StdinReady ==
    /\ pc = "stdin" /\ use_stdin
    /\ IF base_iri = None THEN TRUE ELSE IriValid(Unwrap(base_iri))

StdinReport(fmt, content) ==
    ParserReport(Unwrap(StdinFormat(fmt)), content, base_iri, DefaultGraph)

\* Line 129, load_data returns Err: the '?' ends collect_input.
StdinLoadErr ==
    /\ StdinReady
    /\ \E fmt \in InputFormats, content \in StdinContents :
         /\ StdinFormat(fmt) # None
         /\ LET s == LoadDataErr(State(store, base_iri, prefixes),
                                 StdinReport(fmt, content))
            IN /\ store' = s.store
               /\ base_iri' = s.base_iri
               /\ prefixes' = s.prefixes
    /\ handed' = Append(handed, [src |-> Stdin, base |-> base_iri])
    /\ stdin_read' = TRUE
    /\ Fatal("StdinLoad")
    /\ StdinFrame
    /\ UNCHANGED loaded

\* Line 129, load_data returns Ok.
StdinLoadOk ==
    /\ StdinReady
    /\ \E fmt \in InputFormats, content \in StdinContents :
         /\ StdinFormat(fmt) # None
         /\ LET rep == StdinReport(fmt, content)
                s == LoadDataOk(State(store, base_iri, prefixes), rep)
            IN /\ store' = s.store
               /\ base_iri' = s.base_iri
               /\ prefixes' = s.prefixes
               /\ loaded' = Append(loaded, [src |-> Stdin, report |-> rep])
    /\ handed' = Append(handed, [src |-> Stdin, base |-> base_iri])
    /\ stdin_read' = TRUE
    /\ pc' = "query"
    /\ StdinFrame
    /\ UNCHANGED err

QueryFrame == UNCHANGED <<args, store, base_iri, prefixes, idx, use_stdin,
                          query_file, query_parse_err, stdout, stderr, handed,
                          loaded, stdin_read, executed, produced>>

\* Lines 133-136: the query file cannot be opened or read.
QueryFileFail ==
    /\ pc = "query" /\ query_file # None
    /\ Fatal("UnableToOpenQueryFile")
    /\ UNCHANGED query_str
    /\ QueryFrame

\* Line 137: read_to_string appends the file's contents to query_str.
QueryFromFile ==
    /\ pc = "query" /\ query_file # None
    /\ query_str' = query_str \o RqContent(Unwrap(query_file))
    /\ pc' = "parse"
    /\ UNCHANGED err
    /\ QueryFrame

\* The orders in which a HashMap may be iterated.
Orders(S) ==
    {o \in [1..Cardinality(S) -> S] : \A i, j \in DOMAIN o : i # j => o[i] # o[j]}

\* Lines 140-144: one PREFIX line per entry, then the body.
BuildQuery(str, pfx, order, query_body) ==
    LET PrefixLines[i \in 0..Len(order)] ==
            IF i = 0 THEN <<>>
            ELSE PrefixLines[i - 1] \o PrefixLine(order[i], pfx[order[i]])
    IN str \o PrefixLines[Len(order)] \o query_body

QueryInline ==
    /\ pc = "query" /\ query_file = None /\ args.query # None
    /\ \E order \in Orders(DOMAIN prefixes) :
         query_str' = BuildQuery(query_str, prefixes, order, Unwrap(args.query))
    /\ pc' = "parse"
    /\ UNCHANGED err
    /\ QueryFrame

\* Neither a query file nor a query argument: query_str stays empty.
QueryNone ==
    /\ pc = "query" /\ query_file = None /\ args.query = None
    /\ pc' = "parse"
    /\ UNCHANGED <<query_str, err>>
    /\ QueryFrame

CollectInput ==
    \/ CollectStart
    \/ FileDash \/ FileNoExtension \/ FileRq \/ FileNoFormat \/ FileOpenFail
    \/ FileInvalidIri \/ FileInvalidBase \/ FileLoadErr \/ FileLoadOk
    \/ FilesDone
    \/ StdinSkip \/ StdinUnknownFormat \/ StdinInvalidBase \/ StdinLoadErr
    \/ StdinLoadOk
    \/ QueryFileFail \/ QueryFromFile \/ QueryInline \/ QueryNone

-----------------------------------------------------------------------------
(* The SPARQL parsers and the store's query and update, as main uses them. *)

\* The text after its leading PREFIX declarations.
RECURSIVE Body(_)
Body(text) ==
    IF Len(text) >= 5 /\ text[1] = "PREFIX " THEN Body(SubSeq(text, 6, Len(text)))
    ELSE text

BaseOk(base) == IF base = None THEN TRUE ELSE IriValid(Unwrap(base))

\* Query::parse: the form of the query, or None for a syntax error.
QueryParse(text, base) ==
    LET b == Body(text)
    IN IF ~BaseOk(base) \/ Len(b) # 1 THEN None
       ELSE CASE b[1] \in {"select", "both"} -> Some("Solutions")
              [] b[1] = "ask" -> Some("Boolean")
              [] b[1] = "construct" -> Some("Graph")
              [] OTHER -> None

\* Update::parse succeeds; the empty text is an update of no operations.
UpdateParse(text, base) ==
    LET b == Body(text)
    IN /\ BaseOk(base)
       /\ IF Len(b) = 0 THEN TRUE
          ELSE IF Len(b) = 1 THEN b[1] \in {"update", "both"} ELSE FALSE

\* Lines 254-280: which way main goes, given the outcome of the two parsers.
DispatchUpdateFirst(query, update_ok) ==
    IF update_ok THEN "update" ELSE IF query # None THEN "query" ELSE "bail"

Dispatch(query, update_ok) ==
    IF query # None THEN "query" ELSE IF update_ok THEN "update" ELSE "bail"

Way == Dispatch(QueryParse(query_str, base_iri), UpdateParse(query_str, base_iri))

\* get_queryresults_format
GetQueryResultsFormat(output_format) ==
    IF output_format # None THEN ResultsFormatFromExtension(Unwrap(output_format))
    ELSE Some("Tsv")

\* Lines 207-218: the store that receives the triples of a Graph result.
ConstructStoreInto(st, triples) ==
    [st EXCEPT !.quads = @ \cup {<<t, DefaultGraph>> : t \in triples}]

ConstructStore(st, triples) ==
    [quads |-> {<<t, DefaultGraph>> : t \in triples}, graphs |-> {}]

\* Operations an update may consist of.
UpdateOps(st) ==
    {[kind |-> "none", graph |-> DefaultGraph]}
    \cup {[kind |-> k, graph |-> g] :
             k \in {"insert", "clear"}, g \in {DefaultGraph, UpdateGraph} \cup st.graphs}
    \cup {[kind |-> k, graph |-> g] :
             k \in {"create", "drop"}, g \in {UpdateGraph} \cup st.graphs}

\* Store::update: INSERT DATA adds a quad (and its graph); CLEAR empties a
\* graph and keeps it; CREATE adds an empty named graph; DROP removes a graph.
ApplyUpdate(st, op) ==
    CASE op.kind = "insert" -> LoadQuads(st, {<<"t3", op.graph>>})
      [] op.kind = "clear" -> [st EXCEPT !.quads = {q \in @ : q[2] # op.graph}]
      [] op.kind = "create" -> [st EXCEPT !.graphs = @ \cup {op.graph}]
      [] op.kind = "drop" -> [quads |-> {q \in st.quads : q[2] # op.graph},
                              graphs |-> st.graphs \ {op.graph}]
      [] OTHER -> st

\* quads_for_pattern(None, None, None, Some(g))
GraphQuads(st, g) == {q \in st.quads : q[2] = g}

-----------------------------------------------------------------------------
(* main, after collect_input *)

MainFrame == UNCHANGED <<args, query_str, base_iri, prefixes, idx, use_stdin,
                         query_file, stderr, handed, loaded, stdin_read>>

IsQuery(form) == pc = "parse" /\ Way = "query"
                 /\ QueryParse(query_str, base_iri) = Some(form)

\* Line 182: store.query fails.
QueryFailed ==
    /\ pc = "parse" /\ Way = "query"
    /\ executed' = "query"
    /\ Fatal("QueryFailed")
    /\ MainFrame
    /\ UNCHANGED <<store, query_parse_err, stdout, produced>>

\* Lines 186, 198: --output-format is not a query results format.
UnknownResultsFormat ==
    /\ pc = "parse" /\ Way = "query"
    /\ QueryParse(query_str, base_iri) \in {Some("Solutions"), Some("Boolean")}
    /\ \E fmt \in OutputFormats : GetQueryResultsFormat(fmt) = None
    /\ executed' = "query"
    /\ Fatal("UnknownResultsFormat")
    /\ MainFrame
    /\ UNCHANGED <<store, query_parse_err, stdout, produced>>

\* Lines 185-194 and 262.
QuerySolutions ==
    /\ IsQuery("Solutions")
    /\ \E fmt \in OutputFormats :
         /\ GetQueryResultsFormat(fmt) # None
         /\ stdout' = Append(stdout, [kind |-> "solutions",
                                      format |-> Unwrap(GetQueryResultsFormat(fmt)),
                                      quads |-> {}])
    /\ executed' = "query"
    /\ pc' = "done"
    /\ MainFrame
    /\ UNCHANGED <<store, query_parse_err, err, produced>>

\* Line 190: a solution is an error after the head has been written.
QuerySolutionsFail ==
    /\ IsQuery("Solutions")
    /\ \E fmt \in OutputFormats :
         /\ GetQueryResultsFormat(fmt) # None
         /\ stdout' = Append(stdout, [kind |-> "solutions",
                                      format |-> Unwrap(GetQueryResultsFormat(fmt)),
                                      quads |-> {}])
    /\ executed' = "query"
    /\ Fatal("QueryEvaluation")
    /\ MainFrame
    /\ UNCHANGED <<store, query_parse_err, produced>>

\* Lines 197-203 and 262.
QueryBoolean ==
    /\ IsQuery("Boolean")
    /\ \E fmt \in OutputFormats :
         /\ GetQueryResultsFormat(fmt) # None
         /\ stdout' = Append(stdout, [kind |-> "boolean",
                                      format |-> Unwrap(GetQueryResultsFormat(fmt)),
                                      quads |-> {}])
    /\ executed' = "query"
    /\ pc' = "done"
    /\ MainFrame
    /\ UNCHANGED <<store, query_parse_err, err, produced>>

\* Lines 206-218 and 259: the new store replaces the loaded one.
QueryGraph ==
    /\ IsQuery("Graph")
    /\ \E triples \in SUBSET Triples :
         /\ store' = ConstructStore(store, triples)
         /\ produced' = Some(triples)
    /\ executed' = "query"
    /\ pc' = "serialize"
    /\ MainFrame
    /\ UNCHANGED <<query_parse_err, stdout, err>>

\* Line 209: a produced triple is an error.
QueryGraphFail ==
    /\ IsQuery("Graph")
    /\ executed' = "query"
    /\ Fatal("QueryEvaluation")
    /\ MainFrame
    /\ UNCHANGED <<store, query_parse_err, stdout, produced>>

\* Lines 266-268.
QueryParseError ==
    /\ pc = "parse" /\ Way # "query"
    /\ query_parse_err' = Some("QuerySyntaxError")
    /\ pc' = "update"
    /\ MainFrame
    /\ UNCHANGED <<store, stdout, err, executed, produced>>

\* Lines 273-275.
UpdateRun ==
    /\ pc = "update" /\ Way = "update"
    /\ \E op \in UpdateOps(store) :
         /\ Body(query_str) = <<>> => op.kind = "none"
         /\ store' = ApplyUpdate(store, op)
    /\ executed' = "update"
    /\ pc' = "serialize"
    /\ MainFrame
    /\ UNCHANGED <<query_parse_err, stdout, err, produced>>

\* Line 275: store.update fails.
UpdateFailed ==
    /\ pc = "update" /\ Way = "update"
    /\ executed' = "update"
    /\ Fatal("UpdateFailed")
    /\ MainFrame
    /\ UNCHANGED <<store, query_parse_err, stdout, produced>>

\* Line 278: the query parse error is the one returned.
BailQueryError ==
    /\ pc = "update" /\ Way = "bail"
    /\ Fatal(Unwrap(query_parse_err))
    /\ MainFrame
    /\ UNCHANGED <<store, query_parse_err, stdout, executed, produced>>

\* Lines 282-286.
OutputFormat(output_format) ==
    IF output_format # None THEN RdfFormatFromExtension(Unwrap(output_format))
    ELSE Some("TriG")

SerializeFrame == UNCHANGED <<store, query_parse_err, executed, produced>>

UnknownOutputFormat ==
    /\ pc = "serialize"
    /\ \E fmt \in OutputFormats : OutputFormat(fmt) = None
    /\ Fatal("UnknownOutputFormat")
    /\ UNCHANGED stdout
    /\ MainFrame /\ SerializeFrame

\* Line 311.
DumpDataset ==
    /\ pc = "serialize"
    /\ \E fmt \in OutputFormats :
         /\ OutputFormat(fmt) # None
         /\ SupportsDatasets(Unwrap(OutputFormat(fmt)))
         /\ stdout' = Append(stdout, [kind |-> "dataset",
                                      format |-> Unwrap(OutputFormat(fmt)),
                                      quads |-> store.quads])
    /\ pc' = "done"
    /\ UNCHANGED err
    /\ MainFrame /\ SerializeFrame

\* The graph dumped in a format without datasets (lines 296-309): the default
\* graph when it has a quad, else the named graph that named_graphs() yields
\* first, which may be any of them.
DumpChoices(st) ==
    IF GraphQuads(st, DefaultGraph) # {} THEN {DefaultGraph} ELSE st.graphs

\* Lines 302, 306.
DumpGraph ==
    /\ pc = "serialize"
    /\ \E fmt \in OutputFormats, g \in DumpChoices(store) :
         /\ OutputFormat(fmt) # None
         /\ ~SupportsDatasets(Unwrap(OutputFormat(fmt)))
         /\ stdout' = Append(stdout, [kind |-> "graph",
                                      format |-> Unwrap(OutputFormat(fmt)),
                                      quads |-> GraphQuads(store, g)])
    /\ pc' = "done"
    /\ UNCHANGED err
    /\ MainFrame /\ SerializeFrame

\* Line 305 with no named graph: nothing is written.
DumpNothing ==
    /\ pc = "serialize"
    /\ DumpChoices(store) = {}
    /\ \E fmt \in OutputFormats :
         /\ OutputFormat(fmt) # None
         /\ ~SupportsDatasets(Unwrap(OutputFormat(fmt)))
    /\ pc' = "done"
    /\ UNCHANGED <<stdout, err>>
    /\ MainFrame /\ SerializeFrame

Main ==
    \/ QueryFailed \/ UnknownResultsFormat \/ QuerySolutions
    \/ QuerySolutionsFail \/ QueryBoolean \/ QueryGraph \/ QueryGraphFail
    \/ QueryParseError \/ UpdateRun \/ UpdateFailed \/ BailQueryError
    \/ UnknownOutputFormat \/ DumpDataset \/ DumpGraph \/ DumpNothing

Next == CollectInput \/ Main

Spec == Init /\ [][Next]_vars

-----------------------------------------------------------------------------
(* Properties of input collection. *)

Min(S) == CHOOSE m \in S : \A n \in S : m <= n

\* The PREFIX declarations at the head of a text, as (label, namespace) pairs.
RECURSIVE Decls(_)
Decls(text) ==
    IF Len(text) >= 5 /\ text[1] = "PREFIX "
    THEN {<<text[2], text[4]>>} \cup Decls(SubSeq(text, 6, Len(text)))
    ELSE {}

\* The successfully loaded sources that reported the prefix label l.
Reporters(l) == {i \in 1..Len(loaded) : l \in DOMAIN loaded[i].report.prefixes}

ReportedLabels == UNION {DOMAIN loaded[i].report.prefixes : i \in 1..Len(loaded)}

FirstNamespace(l) == loaded[Min(Reporters(l))].report.prefixes[l]

\* The text was built from the inline query argument.
InlineTextBuilt == query_file = None /\ query_str # <<>>

C1_Table ==
    /\ DOMAIN prefixes = ReportedLabels
    /\ \A l \in DOMAIN prefixes : prefixes[l] = FirstNamespace(l)
    /\ InlineTextBuilt =>
         Decls(query_str) = {<<l, FirstNamespace(l)>> : l \in ReportedLabels}

C1_Step ==
    \A l \in DOMAIN prefixes : l \in DOMAIN prefixes' /\ prefixes'[l] = prefixes[l]

\* C1: the prefix table binds every label reported by a successfully loaded
\* source to the namespace reported by the first such source, a binding never
\* changes once made, and the PREFIX lines prepended to an inline query carry
\* exactly these first namespaces.
C1_PrefixFirstWins == []C1_Table /\ [][C1_Step]_vars

\* Two loaded sources report the label ex with different namespaces and the
\* inline query text has been built.
C1_Witness ==
    /\ InlineTextBuilt
    /\ \E i, j \in Reporters("ex") :
         i < j /\ loaded[i].report.prefixes["ex"] # loaded[j].report.prefixes["ex"]

\* The successfully loaded sources that reported a base IRI.
BaseReporters == {i \in 1..Len(loaded) : loaded[i].report.base # None}

FirstReportedBase ==
    IF BaseReporters = {} THEN None ELSE loaded[Min(BaseReporters)].report.base

\* C2: after the first step of input collection and up to the end of the run
\* (so also when the text is parsed), the accumulated base IRI is the
\* --base-iri value when it is given, and otherwise the first base IRI reported
\* by a successfully loaded source.
C2_BaseIriPrecedence ==
    pc # "start" =>
        IF args.base_iri # None THEN base_iri = args.base_iri
        ELSE base_iri = FirstReportedBase

\* --base-iri is given, a loaded source reported another base IRI, and the text
\* is about to be parsed.
C2_Witness ==
    /\ pc = "parse"
    /\ args.base_iri # None
    /\ \E i \in BaseReporters : loaded[i].report.base # args.base_iri

\* Without --base-iri, two loaded sources reported different base IRIs.
C2_WitnessDiscovered ==
    /\ pc = "parse"
    /\ args.base_iri = None
    /\ \E i, j \in BaseReporters : i < j /\ loaded[i].report.base # loaded[j].report.base

\* C9: the base IRI given to the parser of a file is the --base-iri value or
\* the file's own file-derived IRI.
C9_FileParserBaseIsOwn ==
    \A i \in DOMAIN handed :
        handed[i].src # Stdin =>
            \/ handed[i].base = Some(GraphIri(handed[i].src))
            \/ args.base_iri # None /\ handed[i].base = args.base_iri

\* The state obtained by loading the first n successfully loaded sources.
RECURSIVE Replay(_)
Replay(n) ==
    IF n = 0 THEN State(NewStore, args.base_iri, EmptyMap)
    ELSE LoadDataOk(Replay(n - 1), loaded[n].report)

\* C10: up to the operation, the dataset, the prefix table and the base IRI
\* are those obtained by loading only the sources whose load succeeded, in
\* order: a source whose load failed has left all three as they were.
C10_FailedLoadNoEffect ==
    (pc # "start" /\ executed = "none") =>
        State(store, base_iri, prefixes) = Replay(Len(loaded))

\* A file failed to load, a source was loaded after it, and input collection
\* is over.
C10_Witness ==
    /\ pc = "parse"
    /\ stderr # <<>>
    /\ \E i \in DOMAIN loaded, j \in DOMAIN handed :
         /\ handed[j].src = stderr[1]
         /\ \E k \in DOMAIN handed : k > j /\ handed[k].src = loaded[i].src

\* The file arguments that are not '-' and have the extension rq.
RqArgs ==
    {i \in 1..Len(args.file) :
        args.file[i] # Dash /\ Extension(args.file[i]) = Some("rq")}

\* Some file argument is a data source: neither '-' nor a .rq file.
HasDataSource ==
    \E i \in 1..Len(args.file) :
        args.file[i] # Dash /\ Extension(args.file[i]) # Some("rq")

HasDash == \E i \in 1..Len(args.file) : args.file[i] = Dash

\* The loop over the file arguments has run to its end.
LoopDone == pc \notin {"start", "files"} /\ idx > Len(args.file)

\* Input collection got past the standard input step.
StdinStepDone == pc \in {"query", "parse", "update", "serialize", "done"}

\* C6 as stated: standard input participates unless --no-stdin is set and a
\* data source is given, or '-' is a file argument.
C6_StdinUnlessFlagAndData ==
    LoopDone => (use_stdin <=> (HasDash \/ ~(args.no_stdin /\ HasDataSource)))

\* C6 (amended): standard input participates exactly when '-' is a file
\* argument, or --no-stdin is unset and there is no file argument at all (the
\* query argument counts as one under --file-query); it is then read, and
\* otherwise not read.
C6_StdinOnlyWithoutFiles ==
    /\ LoopDone =>
         (use_stdin <=> (HasDash \/ (~args.no_stdin /\ Len(args.file) = 0)))
    /\ stdin_read => use_stdin
    /\ StdinStepDone => stdin_read = use_stdin

\* --no-stdin is unset, a data file and no '-' is given, and the run went
\* past the standard input step without reading it.
C6_Witness ==
    /\ StdinStepDone
    /\ ~args.no_stdin /\ HasDataSource /\ ~HasDash
    /\ ~stdin_read

\* Every file argument is '-', a .rq file, or has an RDF format.
AllResolvable ==
    \A i \in 1..Len(args.file) :
        \/ args.file[i] = Dash
        \/ Extension(args.file[i]) = Some("rq")
        \/ HasFormat(args.file[i])

\* C7: with resolvable formats, a file that cannot be opened does not end the
\* run: it is skipped and the remaining sources are loaded.
C7_OpenFailureRecoverable ==
    AllResolvable => ~(pc = "error" /\ err = "UnableToOpenFile")

\* collect_input has returned Ok: the text is what the parsers are given.
TextBuilt ==
    \/ pc \in {"parse", "update", "serialize", "done"}
    \/ pc = "error" /\ err \in {"QueryFailed", "UnknownResultsFormat",
                                "QueryEvaluation", "UpdateFailed",
                                "QuerySyntaxError", "UnknownOutputFormat"}

\* The text is one PREFIX line per entry of the prefix table, then the body.
IsPrefixedBody(text, body) ==
    /\ Decls(text) = {<<l, prefixes[l]>> : l \in DOMAIN prefixes}
    /\ Len(text) = 5 * Cardinality(DOMAIN prefixes) + Len(body)
    /\ Body(text) = body

NoRqLoadedAsData ==
    \A i \in DOMAIN handed :
        handed[i].src # Stdin => Extension(handed[i].src) # Some("rq")

\* C8: with a .rq argument the text is the contents of the last one, whatever
\* the inline query argument; otherwise it is one PREFIX line per entry of the
\* prefix table followed by the inline query argument (and it is empty when
\* there is no query argument at all).  No .rq file is loaded as data, and
\* the text stays empty until every source has been processed.
C8_TextSource ==
    /\ TextBuilt =>
         IF RqArgs # {} THEN query_str = RqContent(args.file[Max(RqArgs)])
         ELSE IF args.query # None
              THEN IsPrefixedBody(query_str, Unwrap(args.query))
              ELSE query_str = <<>>
    /\ NoRqLoadedAsData
    /\ ~TextBuilt => query_str = <<>>

\* Two different .rq files are given, with an inline query argument, and the
\* text has been built.
C8_Witness ==
    /\ TextBuilt
    /\ args.query # None
    /\ \E i, j \in RqArgs : i < j /\ args.file[i] # args.file[j]

-----------------------------------------------------------------------------
(* Properties of the operation and of the output. *)

QueryOk == QueryParse(query_str, base_iri) # None
UpdateOk == UpdateParse(query_str, base_iri)

\* main got past the two parse attempts.
Dispatched ==
    \/ pc \in {"serialize", "done"}
    \/ pc = "error" /\ err \in {"QueryFailed", "UnknownResultsFormat",
                                "QueryEvaluation", "UpdateFailed",
                                "QuerySyntaxError", "UnknownOutputFormat"}

ResultsWritten ==
    \E i \in DOMAIN stdout : stdout[i].kind \in {"solutions", "boolean"}

\* C3: a text that Query::parse accepts is run as a query and never as an
\* update; a text that only Update::parse accepts is run as an update, writes
\* no query results, and a run that then completes has written the updated
\* dataset (all of it, or one graph of it); a text that neither accepts ends
\* the run with the query syntax error and nothing on standard output.
C3_Dispatch ==
    /\ executed = "query" => QueryOk
    /\ executed = "update" => ~QueryOk /\ UpdateOk /\ ~ResultsWritten
    /\ Dispatched =>
         /\ QueryOk => executed = "query"
         /\ (~QueryOk /\ UpdateOk) => executed = "update"
         /\ (~QueryOk /\ ~UpdateOk) =>
               /\ executed = "none"
               /\ pc = "error" /\ err = "QuerySyntaxError"
               /\ stdout = <<>>
    /\ (executed = "update" /\ pc = "done") =>
         \/ Len(stdout) = 1 /\ stdout[1].kind = "dataset"
                            /\ stdout[1].quads = store.quads
         \/ Len(stdout) = 1 /\ stdout[1].kind = "graph"
                            /\ \E g \in {DefaultGraph} \cup store.graphs :
                                  stdout[1].quads = GraphQuads(store, g)
         \/ stdout = <<>> /\ store.quads = {}

\* A text that both parsers accept has been run, as a query, to the end.
C3_Witness ==
    /\ pc = "done"
    /\ QueryOk /\ UpdateOk
    /\ executed = "query"

\* A text that only the update parser accepts has changed the store, which
\* has been written.
C3_WitnessUpdate ==
    /\ pc = "done" /\ executed = "update"
    /\ store # Replay(Len(loaded)).store
    /\ stdout # <<>>

\* The quads that were loaded during input collection.
LoadedQuads == UNION {loaded[i].report.quads : i \in 1..Len(loaded)}

\* C4: after a Graph result the store is a new one holding exactly the
\* produced triples in the default graph, and everything written to standard
\* output comes from it: no loaded quad is written unless the query produced
\* its triple into the default graph.
C4_ConstructFreshStore ==
    produced # None =>
        LET fresh == {<<t, DefaultGraph>> : t \in Unwrap(produced)}
        IN /\ store.quads = fresh
           /\ store.graphs = {}
           /\ \A i \in DOMAIN stdout : stdout[i].quads \subseteq fresh
           /\ (pc = "done" /\ fresh # {}) =>
                 Len(stdout) = 1 /\ stdout[1].quads = fresh
           /\ \A q \in LoadedQuads \ fresh :
                 \A i \in DOMAIN stdout : q \notin stdout[i].quads

\* A CONSTRUCT over loaded data produced triples, none of them loaded, and the
\* new store has been written.
C4_Witness ==
    /\ pc = "done"
    /\ produced # None /\ produced # Some({})
    /\ LoadedQuads # {}
    /\ \A q \in LoadedQuads : q[1] \notin Unwrap(produced)
    /\ stdout # <<>>

\* C5: what a format without datasets writes is the default graph when that
\* is non-empty, else one named graph, and it is not empty when some graph of
\* the store is non-empty.
C5_NeverSilentlyEmpty ==
    \A i \in DOMAIN stdout :
        stdout[i].kind = "graph" =>
            /\ IF GraphQuads(store, DefaultGraph) # {}
               THEN stdout[i].quads = GraphQuads(store, DefaultGraph)
               ELSE \E g \in store.graphs : stdout[i].quads = GraphQuads(store, g)
            /\ store.quads # {} => stdout[i].quads # {}

====
